---------------------------- MODULE Spec2Model ----------------------------
(***************************************************************************)
(* A model of the OCR repository: the alphabet codec built by              *)
(* extract_data, the batch assembly of collate_fn (src/src/data/data.py)   *)
(* and the OCR object with its train / save / load operations              *)
(* (src/src/model.py).                                                     *)
(*                                                                         *)
(* Characters are natural numbers standing for code points, a string is a  *)
(* sequence of characters, a token is a string (a character of a label is  *)
(* the one-character string <<c>>).  Python dicts are functions whose      *)
(* DOMAIN is the key set.  Python lists are sequences; where the code      *)
(* indexes from 0 the model keeps the 0-based index as the value and uses  *)
(* position i + 1 of the sequence.                                         *)
(***************************************************************************)
EXTENDS Integers, Sequences, FiniteSets, TLC

(* ------------------------------ bounds --------------------------------- *)
\* number of distinct characters an annotation may use
NumChars == 2
\* num_epochs of a call of train
MaxEpochs == 2
\* batches of a loader
MaxBatches == 2
\* the finite per-batch losses are 0..MaxLoss
MaxLoss == 1
\* calls of save made directly by a caller
MaxSaves == 1
\* number of rows (labels) of an annotation file
MaxLabels == 2
\* total number of characters over all labels of an annotation
MaxTotal == 3
MaxCells == 4

VARIABLES
    \* ---- extract_data / collate_fn (src/src/data/data.py)
    labels,         \* the label column of the annotation file
    blank_token,    \* the blank_token argument of extract_data
    codec_pc,       \* "start" | "extracted" | "collated"
    targets_enc,    \* encoded labels
    token2ind,      \* dict token -> index
    ind2token,      \* dict index -> token
    blank_ind,      \* token2ind[blank_token], as returned
    num_classes,    \* len(token2ind), as returned
    prev,           \* what the previous run of extract_data returned ({} or one record)
    items,          \* the "seqs" of the samples handed to collate_fn
    seq,            \* batch["seq"]
    seq_len,        \* batch["seq_len"]
    \* ---- the OCR object (src/src/model.py)
    model,          \* self.model: its state_dict (weights and BatchNorm statistics)
    mode,           \* self.model.training: "train" | "eval"
    grad,           \* the parameters' .grad: "none" | "zero" | "set"
    _optimizer,     \* self._optimizer: its state_dict (the number of Adam steps taken)
    _epoch,         \* self._epoch
    _eval_loss,     \* self._eval_loss
    \* ---- the file system and the command line
    files,          \* dict path -> checkpoint written by torch.save
    args_load,      \* args.load: a path of files, or NoPath
    \* ---- OCR.train: arguments, locals and position
    pc,
    num_epochs,
    save_checkpoint,
    n_train,        \* len(train_loader)
    n_test,         \* len(test_loader)
    epoch,          \* the loop variable of train
    phase,          \* 1 or 2: which call of the loop body is running
    batch_i,        \* batches of the running epoch already consumed
    final_loss,
    train_loss,
    eval_loss,
    training_loss,
    evaluations_loss,
    \* ---- history
    log,            \* the events of train so far, <<kind, epoch index>>
    saves,          \* the number of calls of save so far
    snapshot,       \* path -> the object as it was when save wrote that path
    loaded,         \* {} or the one record describing the last call of load
    tracing,        \* whether this run keeps batch_losses
    batch_losses,   \* the loss.item() of every batch of the running epoch, in order
    consumed,       \* the batches taken from the loaders, <<"train" | "val", epoch, index>>
    output,         \* the argmax indices of the network's output, time-major: output[t][n]
    dec_blank,      \* the blank_ind argument of decode_batch_outputs
    batch_predictions,  \* the decoded index sequence of every sample
    dec_pc          \* "idle", "start", "decoded"

codec_vars == <<labels, blank_token, codec_pc, targets_enc, token2ind, ind2token,
                blank_ind, num_classes, prev, items, seq, seq_len>>

ocr_vars == <<model, mode, grad, _optimizer, _epoch, _eval_loss>>

train_vars == <<pc, num_epochs, save_checkpoint, n_train, n_test, epoch, phase, batch_i,
                final_loss, train_loss, eval_loss, training_loss, evaluations_loss, log>>

hist_vars == <<saves, snapshot, loaded>>

trace_vars == <<tracing, batch_losses, consumed>>

decode_vars == <<output, dec_blank, batch_predictions, dec_pc>>

vars == <<codec_vars, ocr_vars, files, args_load, train_vars, hist_vars, trace_vars,
          decode_vars>>

(* ----------------------------- helpers --------------------------------- *)
Range(s) == {s[i] : i \in DOMAIN s}

Max(S) == CHOOSE x \in S : \A y \in S : y <= x

RECURSIVE SumSeq(_)
SumSeq(s) == IF s = <<>> THEN 0 ELSE s[1] + SumSeq(Tail(s))

RECURSIVE Flatten(_)
Flatten(ss) == IF ss = <<>> THEN <<>> ELSE ss[1] \o Flatten(Tail(ss))

Chars == 1..NumChars

\* the default blank_token "<BLANK>": a string of more than one character
DefaultBlank == <<1, 1>>

\* blank_token arguments: the default, or any one-character string
BlankTokens == {DefaultBlank} \cup {<<c>> : c \in Chars}

Strings(n) == UNION {[1..k -> Chars] : k \in 0..n}

LenSeqs == UNION {[1..k -> 0..MaxTotal] : k \in 0..MaxLabels}

\* the labels of lengths ls[1], ls[2], ... cut from the string f
CutLabels(f, ls) ==
    [k \in 1..Len(ls) |->
        SubSeq(f, SumSeq(SubSeq(ls, 1, k - 1)) + 1, SumSeq(SubSeq(ls, 1, k)))]

\* every label column of at most MaxLabels rows and MaxTotal characters
Annotations ==
    {CutLabels(f, ls) : <<f, ls>> \in
        {p \in Strings(MaxTotal) \X LenSeqs : SumSeq(p[2]) = Len(p[1])}}

(* --------------------------- extract_data ------------------------------ *)
\* data.py:132-135  the set of characters of all labels
TargetsFlatSet(labs) == UNION {Range(labs[k]) : k \in DOMAIN labs}

\* sorted(list(S)) for a set of characters: ascending code points
Sorted(S) ==
    [i \in 1..Cardinality(S) |->
        CHOOSE c \in S : Cardinality({d \in S : d < c}) = i - 1]

\* a character list in order of first appearance in the labels (no sorting)
FirstSeen(labs) ==
    LET flat == Flatten(labs)
        firsts == {i \in DOMAIN flat : \A j \in 1..(i - 1) : flat[j] # flat[i]}
        pos == Sorted(firsts)
    IN  [i \in 1..Len(pos) |-> flat[pos[i]]]

UnsortedTargetsFlat(labs, blank) ==
    LET s == FirstSeen(labs)
    IN  <<blank>> \o [i \in 1..Len(s) |-> <<s[i]>>]

\* data.py:137  targets_flat = [blank_token] + sorted(list(targets_flat))
TargetsFlat(labs, blank) ==
    LET s == Sorted(TargetsFlatSet(labs))
    IN  <<blank>> \o [i \in 1..Len(s) |-> <<s[i]>>]

\* the characters numbered from 0, as a LabelEncoder would, beside the blank
Token2IndFromZero(tf) ==
    [t \in Range(tf) |-> IF t = tf[1] THEN 0 ELSE Max({i \in DOMAIN tf : tf[i] = t}) - 2]

\* data.py:139  {target: ind for ind, target in enumerate(targets_flat)}:
\* a later entry of the same key overwrites an earlier one
Token2Ind(tf) ==
    [t \in Range(tf) |-> Max({i \in DOMAIN tf : tf[i] = t}) - 1]

\* data.py:140  {ind: target for ind, target in enumerate(targets_flat)}
Ind2Token(tf) == [i \in 0..(Len(tf) - 1) |-> tf[i + 1]]

\* data.py:141  [[token2ind[token] for token in list_token] for list_token in targets]
TargetsEnc(labs, t2i) ==
    [k \in 1..Len(labs) |-> [j \in 1..Len(labs[k]) |-> t2i[<<labs[k][j]>>]]]

\* what run r of extract_data returned, for comparison with a later run
Summary ==
    [chars |-> TargetsFlatSet(labels), token2ind |-> token2ind, ind2token |-> ind2token]

\* data.py:106-145
ExtractData ==
    /\ codec_pc = "start"
    /\ LET tf == TargetsFlat(labels, blank_token)
           t2i == Token2Ind(tf)
       IN  /\ token2ind' = t2i
           /\ ind2token' = Ind2Token(tf)
           /\ targets_enc' = TargetsEnc(labels, t2i)
           /\ blank_ind' = t2i[blank_token]
           /\ num_classes' = Cardinality(DOMAIN t2i)
    /\ codec_pc' = "extracted"
    /\ UNCHANGED <<labels, blank_token, prev, items, seq, seq_len>>
    /\ UNCHANGED <<ocr_vars, files, args_load, train_vars, hist_vars, trace_vars, decode_vars>>

(* ----------------------------- collate_fn ------------------------------ *)
\* 2^24: up to here every integer is a float32
F32Exact == 16777216

RECURSIVE Ulp(_)
\* the spacing of float32 values around the non-negative integer x
Ulp(x) == IF x < F32Exact THEN 1 ELSE 2 * Ulp(x \div 2)

\* data.py:158-159  torch.Tensor(list).int(): each element becomes a float32
\* (round to nearest, ties to even) and is then truncated to an integer
TensorInt(x) ==
    LET u == Ulp(x)
        q == x \div u
        r == x % u
    IN  IF 2 * r < u THEN q * u
        ELSE IF 2 * r > u THEN (q + 1) * u
        ELSE (IF q % 2 = 0 THEN q ELSE q + 1) * u

RECURSIVE CumulativeSeqLens(_)
\* the lengths taken from the growing flat list instead of from the item
CumulativeSeqLens(batch) ==
    IF batch = <<>> THEN <<>>
    ELSE LET n == Len(batch)
         IN  Append(CumulativeSeqLens(SubSeq(batch, 1, n - 1)),
                    TensorInt(Len(Flatten(batch))))

RECURSIVE CollateSeqLens(_)
\* data.py:151-154,159  seq_lens.append(len(item["seqs"])) for each item, in order
CollateSeqLens(batch) ==
    IF batch = <<>> THEN <<>>
    ELSE LET n == Len(batch)
         IN  Append(CollateSeqLens(SubSeq(batch, 1, n - 1)), TensorInt(Len(batch[n])))

RECURSIVE CollateSeqs(_)
\* data.py:151-155,158  seqs.extend(item["seqs"]) for each item, in order
CollateSeqs(batch) ==
    IF batch = <<>> THEN <<>>
    ELSE LET n == Len(batch)
             it == batch[n]
         IN  CollateSeqs(SubSeq(batch, 1, n - 1)) \o [j \in 1..Len(it) |-> TensorInt(it[j])]

\* the batches a DataLoader can hand to collate_fn: the samples of a non-empty
\* list of distinct dataset indices, in any order (shuffle=True)
Batches(enc) ==
    LET idx == UNION {{s \in [1..k -> DOMAIN enc] :
                          \A i, j \in 1..k : i # j => s[i] # s[j]} : k \in 1..Len(enc)}
    IN  {[i \in DOMAIN s |-> enc[s[i]]] : s \in idx}

\* data.py:148-162
CollateFn ==
    /\ codec_pc \in {"extracted", "collated"}
    /\ \E batch \in Batches(targets_enc) :
        /\ items' = batch
        /\ seq' = CollateSeqs(batch)
        /\ seq_len' = CollateSeqLens(batch)
    /\ codec_pc' = "collated"
    /\ UNCHANGED <<labels, blank_token, targets_enc, token2ind, ind2token,
                   blank_ind, num_classes, prev>>
    /\ UNCHANGED <<ocr_vars, files, args_load, train_vars, hist_vars, trace_vars, decode_vars>>

(* ------------------- a later run on a rewritten file -------------------- *)
TotalChars(labs) == Len(Flatten(labs))

\* rows i and i+1 exchanged
SwapRows(labs) ==
    {[k \in DOMAIN labs |-> IF k = i THEN labs[i + 1]
                            ELSE IF k = i + 1 THEN labs[i] ELSE labs[k]] :
        i \in 1..(Len(labs) - 1)}

\* a row repeated at the end
RepeatRow(labs) ==
    {Append(labs, labs[i]) : i \in {k \in DOMAIN labs :
        Len(labs) < MaxLabels /\ TotalChars(labs) + Len(labs[k]) <= MaxTotal}}

\* rows i and i+1 joined into one row
JoinRows(labs) ==
    {SubSeq(labs, 1, i - 1) \o <<labs[i] \o labs[i + 1]>> \o SubSeq(labs, i + 2, Len(labs)) :
        i \in 1..(Len(labs) - 1)}

\* the first character of row i moved to a row of its own at the end
SplitRow(labs) ==
    {Append([labs EXCEPT ![i] = Tail(labs[i])], <<labs[i][1]>>) :
        i \in {k \in DOMAIN labs : Len(labs) < MaxLabels /\ labs[k] # <<>>}}

\* the last row removed
DropRow(labs) == IF labs = <<>> THEN {} ELSE {SubSeq(labs, 1, Len(labs) - 1)}

\* the annotation file is rewritten and the pipeline started again: the new
\* run begins with nothing but the file; prev remembers what the run before returned
Rewrite ==
    /\ codec_pc = "extracted"
    /\ \E new \in SwapRows(labels) \cup RepeatRow(labels) \cup JoinRows(labels)
                  \cup SplitRow(labels) \cup DropRow(labels) :
        labels' = new
    /\ prev' = {Summary}
    /\ codec_pc' = "start"
    /\ targets_enc' = <<>>
    /\ token2ind' = <<>>
    /\ ind2token' = <<>>
    /\ blank_ind' = 0
    /\ num_classes' = 0
    /\ UNCHANGED <<blank_token, items, seq, seq_len>>
    /\ UNCHANGED <<ocr_vars, files, args_load, train_vars, hist_vars, trace_vars, decode_vars>>

(* ------------------------------ losses --------------------------------- *)
\* A float is <<"fin", num, den>> (the fraction num/den in lowest terms, den > 0),
\* <<"inf", 0, 1>> or <<"nan", 0, 1>>.
Fin(n) == <<"fin", n, 1>>
Inf == <<"inf", 0, 1>>
NaN == <<"nan", 0, 1>>

RECURSIVE Gcd(_, _)
Gcd(a, b) == IF b = 0 THEN a ELSE Gcd(b, a % b)

Frac(n, d) == LET g == Gcd(n, d) IN <<"fin", n \div g, d \div g>>

\* loss.item() of a batch: a finite non-negative value, or inf / nan when the
\* alignment loss has no valid path or the weights have diverged
BatchLosses == {Fin(k) : k \in 0..MaxLoss} \cup {Inf, NaN}

\* float + float
LossAdd(a, b) ==
    IF a[1] = "nan" \/ b[1] = "nan" THEN NaN
    ELSE IF a[1] = "inf" \/ b[1] = "inf" THEN Inf
    ELSE Frac(a[2] * b[3] + b[2] * a[3], a[3] * b[3])

\* the sum returned without the division
LossNoDiv(a, n) == a

\* float / int, for n > 0
LossDiv(a, n) == IF a[1] = "fin" THEN Frac(a[2], a[3] * n) ELSE a

GreaterOrEqual(a, b) ==
    /\ a[1] # "nan"
    /\ b[1] # "nan"
    /\ \/ a[1] = "inf"
       \/ a[1] = "fin" /\ b[1] = "fin" /\ a[2] * b[3] >= b[2] * a[3]

\* float > float: False when either side is nan
Greater(a, b) ==
    /\ a[1] # "nan"
    /\ b[1] # "nan"
    /\ \/ a[1] = "inf" /\ b[1] = "fin"
       \/ a[1] = "fin" /\ b[1] = "fin" /\ a[2] * b[3] > b[2] * a[3]

\* f"{x:.5f}": the value rounded to five decimals, or "inf" / "nan"
Format5f(a) ==
    IF a[1] = "fin" THEN <<"fin", (2 * a[2] * 100000 + a[3]) \div (2 * a[3])>>
    ELSE <<a[1], 0>>

(* ---------------------------- save and load ---------------------------- *)
NoPath == <<0, <<"none", 0>>>>

\* model.py:143-144  "Epoch_{self._epoch}_loss_{self._eval_loss:.5f}.pt"
CheckpointPath(ep, loss) == <<ep, Format5f(loss)>>

\* the optimizer state stored under a key that load does not read
SaveStateOtherKey(m, opt, ep, loss, training) ==
    IF training
    THEN [model_state_dict |-> m, optimizer_state_dict |-> opt, epoch |-> ep, loss |-> loss]
    ELSE [model_state_dict |-> m]

\* model.py:390-396  the dict handed to torch.save
SaveState(m, opt, ep, loss, training) ==
    IF training
    THEN [model_state_dict |-> m, optimizer_state_dic |-> opt, epoch |-> ep, loss |-> loss]
    ELSE [model_state_dict |-> m]

\* model.py:398  torch.save(state, path_to_save): the file is replaced
WriteFile(fs, path, state) ==
    [p \in DOMAIN fs \cup {path} |-> IF p = path THEN state ELSE fs[p]]

\* model.py:409-419  load, on the object o = [model, _optimizer, _epoch, _eval_loss]:
\* the object afterwards, and whether a KeyError was raised on the way
LoadState(o, ck) ==
    LET o1 == IF "optimizer_state_dic" \in DOMAIN ck
              THEN [o EXCEPT !._optimizer = ck.optimizer_state_dic] ELSE o
        o2 == IF "epoch" \in DOMAIN ck THEN [o1 EXCEPT !._epoch = ck.epoch] ELSE o1
    IN  IF "epoch" \in DOMAIN ck /\ "loss" \notin DOMAIN ck
        THEN [obj |-> o2, raised |-> TRUE]
        ELSE LET o3 == IF "epoch" \in DOMAIN ck
                       THEN [o2 EXCEPT !._eval_loss = ck.loss] ELSE o2
             IN  IF "model_state_dict" \in DOMAIN ck
                 THEN [obj |-> [o3 EXCEPT !.model = ck.model_state_dict], raised |-> FALSE]
                 ELSE [obj |-> o3, raised |-> TRUE]

Self == [model |-> model, _optimizer |-> _optimizer, _epoch |-> _epoch,
         _eval_loss |-> _eval_loss]

(* ----------------------------- the network ----------------------------- *)
\* model.py:53  CNN_GRU(num_classes): randomly initialised weights (seed s),
\* no update applied, BatchNorm statistics untouched
FreshModel(s) == [seed |-> s, weights |-> 0, stats |-> 0]

\* model.py:174, 231  self.model(images, targets): in train mode the forward
\* pass moves the BatchNorm running statistics, in eval mode it changes nothing
Forward(m, md) == IF md = "train" THEN [m EXCEPT !.stats = @ + 1] ELSE m

\* model.py:197  self._optimizer.step(): the weights move
Step(m) == [m EXCEPT !.weights = @ + 1]

\* a validation batch that also back-propagates and steps the optimizer
ValidationNetStepping(m, md, opt, g) ==
    [model |-> Step(Forward(m, md)), _optimizer |-> opt + 1, grad |-> "set"]

\* model.py:223-248  one validation batch under torch.no_grad(): forward pass
\* and loss only
ValidationNet(m, md, opt, g) ==
    [model |-> Forward(m, md), _optimizer |-> opt, grad |-> g]

\* model.py:167-197  one training batch: zero_grad, forward, backward, step
TrainNet(m, md, opt, g) ==
    [model |-> Step(Forward(m, md)), _optimizer |-> opt + 1, grad |-> "set"]

(* ------------------------------ OCR.train ------------------------------ *)
ValidationFirst == <<"val", "train">>

\* model.py:103-104  the two calls of the loop body, in order
PhaseOrder == <<"train", "val">>

BeginOf(ph) == IF ph = "train" THEN "train_begin" ELSE "val_begin"

\* where control goes after call number k of the loop body has returned
AfterPhase(k) == IF k < Len(PhaseOrder) THEN BeginOf(PhaseOrder[k + 1]) ELSE "epoch_end"

\* the exception caught and the rest of the loop body run
Swallowed == "epoch_end"

\* model.py:102-107  no try around the two calls: an exception raised inside
\* an epoch leaves train
Propagated == "raised"

\* model.py:102  for epoch in range(num_epochs): epoch number e is run
MoreEpochs(e, n) == e < n

\* model.py:400-419  load(path_to_model)
LoadCall(path) ==
    /\ pc = "init"
    /\ path \in DOMAIN files
    /\ LET r == LoadState(Self, files[path])
       IN  /\ model' = r.obj.model
           /\ _optimizer' = r.obj._optimizer
           /\ _epoch' = r.obj._epoch
           /\ _eval_loss' = r.obj._eval_loss
           /\ pc' = IF r.raised THEN "raised" ELSE "ready"
    /\ loaded' = {[path |-> path, ck |-> files[path], before |-> Self,
                   saved |-> IF path \in DOMAIN snapshot THEN {snapshot[path]} ELSE {}]}
    /\ UNCHANGED decode_vars
    /\ UNCHANGED <<codec_vars, mode, grad, files, args_load, num_epochs, save_checkpoint,
                   n_train, n_test, epoch, phase, batch_i, final_loss, train_loss,
                   eval_loss, training_loss, evaluations_loss, log, saves, snapshot,
                   trace_vars>>

\* main.py:31-33  model.load(args.load)
Load == args_load # NoPath /\ LoadCall(args_load)

\* a caller loads any of the files
LoadAny == \E path \in DOMAIN files : LoadCall(path)

\* where a caller saves: beside the checkpoints of train, or the weights alone
WeightsPath == <<0, <<"weights", 0>>>>

\* model.py:376-398  save(path_to_save, training)
SaveCall ==
    /\ pc \in {"init", "ready"}
    /\ saves < MaxSaves
    /\ \E training \in BOOLEAN :
        LET path == IF training THEN CheckpointPath(_epoch, _eval_loss) ELSE WeightsPath
        IN  /\ files' = WriteFile(files, path,
                                  SaveState(model, _optimizer, _epoch, _eval_loss, training))
            /\ snapshot' = WriteFile(snapshot, path, [obj |-> Self, training |-> training])
    /\ saves' = saves + 1
    /\ UNCHANGED decode_vars
    /\ UNCHANGED <<codec_vars, ocr_vars, args_load, train_vars, loaded, trace_vars>>

\* random seeds of the weight initialisation
Seeds == {1, 2}

\* model.py:52-65  OCR(...): another object is constructed (a later process)
Construct ==
    /\ pc \in {"init", "ready", "raised"}
    /\ \E s \in Seeds : model' = [seed |-> s, weights |-> 0, stats |-> 0]
    /\ mode' = "train"
    /\ grad' = "none"
    /\ _optimizer' = 0
    /\ _epoch' = 0
    /\ _eval_loss' = Inf
    /\ pc' = "init"
    /\ UNCHANGED decode_vars
    /\ UNCHANGED <<codec_vars, files, args_load, num_epochs, save_checkpoint, n_train,
                   n_test, epoch, phase, batch_i, final_loss, train_loss, eval_loss,
                   training_loss, evaluations_loss, log, hist_vars, trace_vars>>

\* model.py:100-102  train is entered: the lists are created and the loop starts
TrainCall ==
    /\ \/ pc = "ready"
       \/ pc = "init" /\ args_load = NoPath
    /\ training_loss' = <<>>
    /\ evaluations_loss' = <<>>
    /\ epoch' = 0
    /\ phase' = 1
    /\ pc' = IF MoreEpochs(0, num_epochs) THEN BeginOf(PhaseOrder[1]) ELSE "returned"
    /\ UNCHANGED <<hist_vars, trace_vars>>
    /\ UNCHANGED decode_vars
    /\ UNCHANGED <<codec_vars, ocr_vars, files, args_load, num_epochs, save_checkpoint,
                   n_train, n_test, batch_i, final_loss, train_loss, eval_loss, log>>

\* model.py:163-165  _train_epoch is entered
TrainEpochBegin ==
    /\ pc = "train_begin"
    /\ mode' = "train"
    /\ final_loss' = Fin(0)
    /\ batch_i' = 0
    /\ pc' = "training"
    /\ log' = Append(log, <<"train_begin", epoch>>)
    /\ batch_losses' = <<>>
    /\ UNCHANGED <<hist_vars, tracing, consumed>>
    /\ UNCHANGED decode_vars
    /\ UNCHANGED <<codec_vars, model, grad, _optimizer, _epoch, _eval_loss, files,
                   args_load, num_epochs, save_checkpoint, n_train, n_test, epoch, phase,
                   train_loss, eval_loss, training_loss, evaluations_loss>>

\* model.py:166-199  one batch of the training epoch
TrainBatch ==
    /\ pc = "training"
    /\ batch_i < n_train
    /\ \E loss \in BatchLosses :
        /\ final_loss' = LossAdd(final_loss, loss)
        /\ batch_losses' = IF tracing THEN Append(batch_losses, loss) ELSE batch_losses
    /\ LET net == TrainNet(model, mode, _optimizer, grad)
       IN  /\ model' = net.model
           /\ _optimizer' = net._optimizer
           /\ grad' = net.grad
    /\ batch_i' = batch_i + 1
    /\ consumed' = Append(consumed, <<"train", epoch, batch_i>>)
    /\ UNCHANGED <<hist_vars, tracing>>
    /\ UNCHANGED decode_vars
    /\ UNCHANGED <<codec_vars, mode, _epoch, _eval_loss, files, args_load, pc, num_epochs,
                   save_checkpoint, n_train, n_test, epoch, phase, train_loss, eval_loss,
                   training_loss, evaluations_loss, log>>

\* model.py:167-196  a step of the batch raises: the gradients were zeroed,
\* the forward pass may have run, the optimizer has not stepped
TrainBatchRaises ==
    /\ pc = "training"
    /\ batch_i < n_train
    /\ grad' = "zero"
    /\ \E forwarded \in BOOLEAN :
        model' = IF forwarded THEN Forward(model, mode) ELSE model
    /\ pc' = Propagated
    /\ log' = Append(log, <<"raise", epoch>>)
    /\ UNCHANGED <<hist_vars, trace_vars>>
    /\ UNCHANGED decode_vars
    /\ UNCHANGED <<codec_vars, mode, _optimizer, _epoch, _eval_loss, files, args_load,
                   num_epochs, save_checkpoint, n_train, n_test, epoch, phase, batch_i,
                   final_loss, train_loss, eval_loss, training_loss, evaluations_loss>>

\* model.py:201-202  train_loss = final_loss / len(train_loader); a loader
\* without batches makes the division raise ZeroDivisionError
TrainEpochReturn ==
    /\ pc = "training"
    /\ batch_i = n_train
    /\ IF n_train = 0
       THEN /\ pc' = Propagated
            /\ log' = Append(log, <<"raise", epoch>>)
            /\ UNCHANGED train_loss
       ELSE /\ train_loss' = LossDiv(final_loss, n_train)
            /\ pc' = AfterPhase(phase)
            /\ log' = Append(log, <<"train_end", epoch>>)
    /\ phase' = IF n_train = 0 THEN phase ELSE phase + 1
    /\ UNCHANGED <<hist_vars, trace_vars>>
    /\ UNCHANGED decode_vars
    /\ UNCHANGED <<codec_vars, ocr_vars, files, args_load, num_epochs, save_checkpoint,
                   n_train, n_test, epoch, batch_i, final_loss, eval_loss, training_loss,
                   evaluations_loss>>

\* model.py:219-223  _validation_epoch is entered; np.random.choice(0, 1,
\* replace=False) raises ValueError for a loader without batches
ValidationBegin ==
    /\ pc = "val_begin"
    /\ mode' = "eval"
    /\ final_loss' = Fin(0)
    /\ batch_i' = 0
    /\ IF n_test = 0
       THEN pc' = Propagated /\ log' = Append(log, <<"raise", epoch>>)
       ELSE pc' = "validating" /\ log' = Append(log, <<"val_begin", epoch>>)
    /\ batch_losses' = <<>>
    /\ UNCHANGED <<hist_vars, tracing, consumed>>
    /\ UNCHANGED decode_vars
    /\ UNCHANGED <<codec_vars, model, grad, _optimizer, _epoch, _eval_loss, files,
                   args_load, num_epochs, save_checkpoint, n_train, n_test, epoch, phase,
                   train_loss, eval_loss, training_loss, evaluations_loss>>

\* model.py:224-248  one batch of the validation epoch
ValidationBatch ==
    /\ pc = "validating"
    /\ batch_i < n_test
    /\ \E loss \in BatchLosses :
        /\ final_loss' = LossAdd(final_loss, loss)
        /\ batch_losses' = IF tracing THEN Append(batch_losses, loss) ELSE batch_losses
    /\ LET net == ValidationNet(model, mode, _optimizer, grad)
       IN  /\ model' = net.model
           /\ _optimizer' = net._optimizer
           /\ grad' = net.grad
    /\ batch_i' = batch_i + 1
    /\ consumed' = Append(consumed, <<"val", epoch, batch_i>>)
    /\ UNCHANGED <<hist_vars, tracing>>
    /\ UNCHANGED decode_vars
    /\ UNCHANGED <<codec_vars, mode, _epoch, _eval_loss, files, args_load, pc, num_epochs,
                   save_checkpoint, n_train, n_test, epoch, phase, train_loss, eval_loss,
                   training_loss, evaluations_loss, log>>

\* model.py:225-246  a step of the validation batch raises
ValidationBatchRaises ==
    /\ pc = "validating"
    /\ batch_i < n_test
    /\ pc' = Propagated
    /\ log' = Append(log, <<"raise", epoch>>)
    /\ UNCHANGED <<hist_vars, trace_vars>>
    /\ UNCHANGED decode_vars
    /\ UNCHANGED <<codec_vars, ocr_vars, files, args_load, num_epochs, save_checkpoint,
                   n_train, n_test, epoch, phase, batch_i, final_loss, train_loss,
                   eval_loss, training_loss, evaluations_loss>>

\* model.py:250-251  eval_loss = final_loss / len(test_loader)
ValidationReturn ==
    /\ pc = "validating"
    /\ batch_i = n_test
    /\ eval_loss' = LossDiv(final_loss, n_test)
    /\ pc' = AfterPhase(phase)
    /\ phase' = phase + 1
    /\ log' = Append(log, <<"val_end", epoch>>)
    /\ UNCHANGED <<hist_vars, trace_vars>>
    /\ UNCHANGED decode_vars
    /\ UNCHANGED <<codec_vars, ocr_vars, files, args_load, num_epochs, save_checkpoint,
                   n_train, n_test, epoch, batch_i, final_loss, train_loss, training_loss,
                   evaluations_loss>>

\* the element training_loss.append(training_loss) adds: the list itself
TheListItself == <<"list", 0, 1>>

\* the checkpoint written whenever the loss is not worse
ImprovedOrEqual(best, loss) == GreaterOrEqual(best, loss)

\* the checkpoint written when the loss got worse
Worsened(best, loss) == Greater(loss, best)

\* model.py:141  self._eval_loss > eval_loss
Improved(best, loss) == Greater(best, loss)

\* model.py:105-145, 102, 147  the rest of the loop body: the lists grow, the
\* epoch counter is advanced, the checkpoint is written when the validation
\* loss improved; then the next iteration, or the return
EpochEnd ==
    /\ pc = "epoch_end"
    /\ training_loss' = Append(training_loss, TheListItself)
    /\ evaluations_loss' = Append(evaluations_loss, eval_loss)
    /\ _epoch' = _epoch + 1
    /\ IF save_checkpoint /\ Improved(_eval_loss, eval_loss)
       THEN /\ _eval_loss' = eval_loss
            /\ files' = WriteFile(files, CheckpointPath(_epoch', _eval_loss'),
                                  SaveState(model, _optimizer, _epoch', _eval_loss', TRUE))
            /\ snapshot' = WriteFile(snapshot, CheckpointPath(_epoch', _eval_loss'),
                                     [obj |-> [Self EXCEPT !._epoch = _epoch',
                                                           !._eval_loss = _eval_loss'],
                                      training |-> TRUE])
            /\ saves' = saves + 1
            /\ log' = log \o <<<<"decision", epoch>>, <<"save", epoch>>>>
       ELSE /\ UNCHANGED <<_eval_loss, files, snapshot, saves>>
            /\ log' = Append(log, <<"decision", epoch>>)
    /\ epoch' = epoch + 1
    /\ phase' = 1
    /\ pc' = IF MoreEpochs(epoch + 1, num_epochs) THEN BeginOf(PhaseOrder[1])
                                                    ELSE "returned"
    /\ UNCHANGED decode_vars
    /\ UNCHANGED <<codec_vars, model, mode, grad, _optimizer, args_load, num_epochs,
                   save_checkpoint, n_train, n_test, batch_i, final_loss, train_loss,
                   eval_loss, loaded, trace_vars>>

(* ------------------------------- decoder ------------------------------- *)
\* the argmax of one sample at every time step: column n of the time-major output
Sample(out, n) == [t \in 1..Len(out) |-> out[t][n]]

RECURSIVE Scan(_, _, _)
\* left to right: a symbol is kept when it differs from the previous raw symbol
Scan(raw, i, kept) ==
    IF i > Len(raw) THEN kept
    ELSE Scan(raw, i + 1,
              IF i > 1 /\ raw[i] = raw[i - 1] THEN kept ELSE Append(kept, raw[i]))

CollapseRepeats(raw) == Scan(raw, 1, <<>>)

DropBlank(kept, blank) == SelectSeq(kept, LAMBDA x : x # blank)

\* the blanks removed before the repeats are collapsed
DropThenCollapse(raw, blank) == CollapseRepeats(DropBlank(raw, blank))

\* greedy decoding of one sample: collapse the repeats, then drop the blanks
GreedyDecode(raw, blank) == DropBlank(CollapseRepeats(raw), blank)

\* the raw index sequences of the worked examples
ExampleRaws == {<<0, 3, 3, 0, 5, 5, 5, 0>>, <<0, 0, 0>>}

\* time-major outputs of T steps for N samples, T * N <= MaxCells, and the
\* worked examples as outputs of one sample
Outputs ==
    UNION {[1..T -> [1..N -> 0..NumChars]] :
           <<T, N>> \in {tn \in (1..MaxCells) \X (1..MaxCells) : tn[1] * tn[2] <= MaxCells}}
    \cup {[t \in 1..Len(raw) |-> <<raw[t]>>] : raw \in ExampleRaws}

\* model.py:174-176  decode_batch_outputs(output, self.ind2token, self.blank_ind,
\* self.blank_token): one decoded sequence per sample of the batch
DecodeBatchOutputs ==
    /\ dec_pc = "start"
    /\ batch_predictions' = [n \in 1..Len(output[1]) |->
                                 GreedyDecode(Sample(output, n), dec_blank)]
    /\ dec_pc' = "decoded"
    /\ UNCHANGED <<output, dec_blank>>
    /\ UNCHANGED <<codec_vars, ocr_vars, files, args_load, train_vars, hist_vars, trace_vars>>

(* --------------------------- specifications ---------------------------- *)
\* no annotation read: the state of the codec variables outside the codec runs
CodecIdle ==
    /\ labels = <<>>
    /\ blank_token = DefaultBlank
    /\ codec_pc = "start"
    /\ targets_enc = <<>>
    /\ token2ind = <<>>
    /\ ind2token = <<>>
    /\ blank_ind = 0
    /\ num_classes = 0
    /\ prev = {}
    /\ items = <<>>
    /\ seq = <<>>
    /\ seq_len = <<>>

\* an object whose best-seen loss starts at zero
ConstructedZeroLoss(s) ==
    /\ model = FreshModel(s)
    /\ mode = "train"
    /\ grad = "none"
    /\ _optimizer = 0
    /\ _epoch = 0
    /\ _eval_loss = Fin(0)

\* model.py:52-57  a freshly constructed OCR
Constructed(s) ==
    /\ model = FreshModel(s)
    /\ mode = "train"
    /\ grad = "none"
    /\ _optimizer = 0
    /\ _epoch = 0
    /\ _eval_loss = Inf

\* train has not been called
TrainIdle ==
    /\ epoch = 0
    /\ phase = 1
    /\ batch_i = 0
    /\ final_loss = Fin(0)
    /\ train_loss = Fin(0)
    /\ eval_loss = Fin(0)
    /\ training_loss = <<>>
    /\ evaluations_loss = <<>>
    /\ log = <<>>
    /\ saves = 0
    /\ snapshot = <<>>
    /\ loaded = {}
    /\ batch_losses = <<>>
    /\ consumed = <<>>

\* no output decoded
DecodeIdle ==
    /\ output = <<>>
    /\ dec_blank = 0
    /\ batch_predictions = <<>>
    /\ dec_pc = "idle"

\* the weights of another run
OtherModel == [seed |-> 0, weights |-> MaxEpochs, stats |-> MaxEpochs]

\* the checkpoint an earlier run may have left to resume from: written by
\* save(path, True) after MaxEpochs epochs, with a finite best loss
ResumeCheckpoints ==
    {SaveState(OtherModel, MaxEpochs, MaxEpochs, Fin(MaxLoss), TRUE)}

\* a file that holds the weights and any of the optional fields
ForeignCheckpoints ==
    {[k \in {"model_state_dict"} \cup opt |->
        CASE k = "model_state_dict" -> OtherModel
          [] k = "optimizer_state_dic" -> MaxEpochs
          [] k = "epoch" -> MaxEpochs
          [] k = "loss" -> Fin(MaxLoss)] :
        opt \in SUBSET {"optimizer_state_dic", "epoch", "loss"}}

ForeignPath == <<0, <<"foreign", 0>>>>

InitCodec ==
    /\ labels \in Annotations
    /\ blank_token \in BlankTokens
    /\ codec_pc = "start"
    /\ targets_enc = <<>>
    /\ token2ind = <<>>
    /\ ind2token = <<>>
    /\ blank_ind = 0
    /\ num_classes = 0
    /\ prev = {}
    /\ items = <<>>
    /\ seq = <<>>
    /\ seq_len = <<>>
    /\ Constructed(1)
    /\ files = <<>>
    /\ args_load = NoPath
    /\ pc = "init"
    /\ num_epochs = 0
    /\ save_checkpoint = TRUE
    /\ n_train = 0
    /\ n_test = 0
    /\ TrainIdle
    /\ DecodeIdle
    /\ tracing = FALSE

\* one run of extract_data, then the loader's batches
NextCodec == ExtractData \/ CollateFn

SpecCodec == InitCodec /\ [][NextCodec]_vars

\* runs of extract_data, the annotation file rewritten in between
NextRerun == ExtractData \/ Rewrite

SpecRerun == InitCodec /\ [][NextRerun]_vars

\* main.py:28-37  the OCR object is constructed, the loaders exist, args.load
\* names a checkpoint or nothing; train is about to be called
Init ==
    /\ CodecIdle
    /\ Constructed(1)
    /\ \/ files = <<>> /\ args_load = NoPath
       \/ \E ck \in ResumeCheckpoints :
            /\ args_load = CheckpointPath(ck.epoch, ck.loss)
            /\ files = WriteFile(<<>>, args_load, ck)
    /\ pc = "init"
    /\ num_epochs \in 0..MaxEpochs
    /\ save_checkpoint \in BOOLEAN
    /\ n_train \in 0..MaxBatches
    /\ n_test \in 0..MaxBatches
    /\ TrainIdle
    /\ DecodeIdle
    /\ tracing = FALSE

Next ==
    \/ Load
    \/ TrainCall
    \/ TrainEpochBegin
    \/ TrainBatch
    \/ TrainBatchRaises
    \/ TrainEpochReturn
    \/ ValidationBegin
    \/ ValidationBatch
    \/ ValidationBatchRaises
    \/ ValidationReturn
    \/ EpochEnd

Spec == Init /\ [][Next]_vars

\* the one thread of control that runs train takes every step it can take
SpecFair == Spec /\ WF_vars(Next)

\* an OCR object in any state training can leave it in, a checkpoint file of
\* unknown origin on disk; callers save, construct and load
InitCkpt ==
    /\ CodecIdle
    /\ \E w \in 0..MaxBatches :
        /\ model = [seed |-> 1, weights |-> w, stats |-> w]
        /\ _optimizer = w
        /\ grad = IF w = 0 THEN "none" ELSE "set"
    /\ mode \in {"train", "eval"}
    /\ _epoch \in 0..MaxEpochs
    /\ _eval_loss \in {Inf} \cup {Fin(k) : k \in 0..MaxLoss}
    /\ \E ck \in ForeignCheckpoints : files = WriteFile(<<>>, ForeignPath, ck)
    /\ args_load = NoPath
    /\ pc = "init"
    /\ num_epochs = 0
    /\ save_checkpoint = TRUE
    /\ n_train = 0
    /\ n_test = 0
    /\ TrainIdle
    /\ DecodeIdle
    /\ tracing = FALSE

NextCkpt == SaveCall \/ Construct \/ LoadAny

SpecCkpt == InitCkpt /\ [][NextCkpt]_vars

\* one call of train for one epoch on a fresh object, every batch loss recorded
InitEpoch ==
    /\ CodecIdle
    /\ Constructed(1)
    /\ files = <<>>
    /\ args_load = NoPath
    /\ pc = "init"
    /\ num_epochs = 1
    /\ save_checkpoint \in BOOLEAN
    /\ n_train \in 0..MaxBatches
    /\ n_test \in 0..MaxBatches
    /\ TrainIdle
    /\ DecodeIdle
    /\ tracing = TRUE

NextEpoch ==
    \/ TrainCall
    \/ TrainEpochBegin
    \/ TrainBatch
    \/ TrainBatchRaises
    \/ TrainEpochReturn
    \/ ValidationBegin
    \/ ValidationBatch
    \/ ValidationBatchRaises
    \/ ValidationReturn
    \/ EpochEnd

SpecEpoch == InitEpoch /\ [][NextEpoch]_vars

\* one output of the network decoded; blank_ind is 0, or 1 when the blank
\* token is one of the observed characters
InitDecode ==
    /\ CodecIdle
    /\ Constructed(1)
    /\ files = <<>>
    /\ args_load = NoPath
    /\ pc = "init"
    /\ num_epochs = 0
    /\ save_checkpoint = TRUE
    /\ n_train = 0
    /\ n_test = 0
    /\ TrainIdle
    /\ tracing = FALSE
    /\ output \in Outputs
    /\ dec_blank \in 0..1
    /\ batch_predictions = <<>>
    /\ dec_pc = "start"

NextDecode == DecodeBatchOutputs

SpecDecode == InitDecode /\ [][NextDecode]_vars

(* ------------------------ claims: the codec ---------------------------- *)
Extracted == codec_pc # "start"

\* the characters the labels hold, as tokens
ObservedTokens == {<<c>> : c \in TargetsFlatSet(labels)}

\* C3: whatever labels and blank_token are passed, extract_data returns blank
\* index 0, token2ind[blank_token] = 0 and ind2token[0] = blank_token.
C3_BlankAtZero ==
    Extracted =>
        /\ blank_ind = 0
        /\ token2ind[blank_token] = 0
        /\ ind2token[0] = blank_token

\* index by index through ind2token, the tokens concatenated
DecodeVia(i2t, enc) == Flatten([j \in DOMAIN enc |-> i2t[enc[j]]])

\* C4: for every label s of the annotation, decoding the encoded sequence of s
\* through ind2token and concatenating the tokens gives s back.
C4_RoundTrip ==
    Extracted =>
        /\ Len(targets_enc) = Len(labels)
        /\ \A k \in DOMAIN labels : DecodeVia(ind2token, targets_enc[k]) = labels[k]

C4_Witness ==
    /\ Extracted
    /\ blank_token \in ObservedTokens
    /\ \E k \in DOMAIN labels :
        /\ Len(labels[k]) >= 2
        /\ labels[k][1] # labels[k][2]
        /\ <<labels[k][1]>> = blank_token

\* C5: token2ind and ind2token are mutual inverses, their key sets are {blank}
\* plus the observed characters and 0..vocabulary_size-1, and the vocabulary
\* size is the number of distinct observed characters plus one.
C5_Bijection ==
    Extracted =>
        /\ \A t \in DOMAIN token2ind : ind2token[token2ind[t]] = t
        /\ \A i \in DOMAIN ind2token : token2ind[ind2token[i]] = i
        /\ DOMAIN token2ind = {blank_token} \cup ObservedTokens
        /\ DOMAIN ind2token = 0..(num_classes - 1)
        /\ num_classes = Cardinality(TargetsFlatSet(labels)) + 1

\* the 1-based rank of character c among the characters of S
Rank(c, S) == Cardinality({d \in S : d <= c})

\* C6: two runs of extract_data on annotations with the same set of characters
\* return identical token2ind and ind2token, and the characters of the labels
\* hold the indices 1..n in sorted order.
C6_Deterministic ==
    Extracted =>
        /\ \A p \in prev :
            p.chars = TargetsFlatSet(labels) =>
                p.token2ind = token2ind /\ p.ind2token = ind2token
        /\ LET S == TargetsFlatSet(labels)
           IN  \A c \in S : /\ token2ind[<<c>>] = Rank(c, S)
                            /\ ind2token[Rank(c, S)] = <<c>>

\* two runs on different label lists with the same two characters, met in
\* descending order in the later one
C6_Witness ==
    /\ Extracted
    /\ \E p \in prev : p.chars = TargetsFlatSet(labels)
    /\ Cardinality(TargetsFlatSet(labels)) >= 2
    /\ \E i, j \in DOMAIN Flatten(labels) : i < j /\ Flatten(labels)[i] > Flatten(labels)[j]

\* the 0-based position in seq at which sample k starts
Offset(k) == SumSeq(SubSeq(seq_len, 1, k - 1))

\* C7: in a batch of collate_fn, seq_len has one entry per sample, the entries
\* sum to the length of seq, and sample k's encoded label is the slice of seq
\* from sum(seq_len[0..k-1]) up to sum(seq_len[0..k]) - 1.
C7_BatchLayout ==
    codec_pc = "collated" =>
        /\ Len(seq_len) = Len(items)
        /\ SumSeq(seq_len) = Len(seq)
        /\ \A k \in DOMAIN items :
            SubSeq(seq, Offset(k) + 1, Offset(k) + seq_len[k]) = items[k]

C7_Witness ==
    /\ codec_pc = "collated"
    /\ Len(items) >= 2
    /\ Len(items[1]) >= 2
    /\ Len(items[2]) = 1
    /\ items[1][1] # items[2][1]
(* ---------------------- claims: the training loop ---------------------- *)
\* a < b on floats: False when either side is nan
StrictlyLess(a, b) ==
    /\ a[1] # "nan"
    /\ b[1] # "nan"
    /\ \/ a[1] = "fin" /\ b[1] = "inf"
       \/ a[1] = "fin" /\ b[1] = "fin" /\ a[2] * b[3] < b[2] * a[3]

\* C1: with checkpointing enabled, the end of an epoch writes a checkpoint if
\* and only if the epoch's validation loss is strictly less than the best-seen
\* loss held before; a written checkpoint carries the epoch counter and that
\* loss, which becomes the best-seen loss; otherwise the best-seen loss and
\* the files stay as they were.
C1_CheckpointIffImproved ==
    [][(pc = "epoch_end" /\ pc' # "epoch_end" /\ save_checkpoint) =>
          LET new == DOMAIN files' \ DOMAIN files
          IN  IF StrictlyLess(eval_loss, _eval_loss)
              THEN /\ _eval_loss' = eval_loss
                   /\ _epoch' = _epoch + 1
                   /\ Cardinality(new) = 1
                   /\ \A p \in new : /\ files'[p].epoch = _epoch'
                                     /\ files'[p].loss = eval_loss
                                     /\ files'[p].model_state_dict = model
                   /\ \A p \in DOMAIN files : files'[p] = files[p]
              ELSE /\ _eval_loss' = _eval_loss
                   /\ files' = files]_vars

\* a run whose first epoch wrote a checkpoint and whose second epoch, with the
\* same validation loss, did not
C1_Witness ==
    /\ save_checkpoint
    /\ pc = "returned"
    /\ Len(evaluations_loss) = 2
    /\ evaluations_loss[1] = evaluations_loss[2]
    /\ evaluations_loss[1][1] = "fin"
    /\ \E i \in DOMAIN log : log[i] = <<"save", 0>>
    /\ \A i \in DOMAIN log : log[i] # <<"save", 1>>

Earlier(i, ev) == \E j \in 1..(i - 1) : log[j] = ev

\* C2: every epoch of train runs its training epoch, then its validation epoch,
\* then the checkpoint decision: no validation epoch starts before the training
\* epoch of the same index has finished, no checkpoint is written before that
\* epoch's validation has finished and the decision is taken, and a training
\* epoch starts only after the decision of the epoch before.
C2_EpochOrder ==
    \A i \in DOMAIN log :
        LET k == log[i][1]
            e == log[i][2]
        IN  /\ k = "train_begin" =>
                /\ e > 0 => Earlier(i, <<"decision", e - 1>>)
                /\ \A j \in 1..(i - 1) : log[j][2] < e
            /\ k = "train_end" => Earlier(i, <<"train_begin", e>>)
            /\ k = "val_begin" => Earlier(i, <<"train_end", e>>)
            /\ k = "val_end" => Earlier(i, <<"val_begin", e>>)
            /\ k = "decision" => Earlier(i, <<"val_end", e>>)
            /\ k = "save" => /\ Earlier(i, <<"val_end", e>>)
                             /\ log[i - 1] = <<"decision", e>>

C2_Witness ==
    /\ pc = "validating"
    /\ epoch = 1
    /\ \E i \in DOMAIN log : log[i] = <<"save", 0>>

\* C10: a validation epoch leaves the model's state and the optimizer state
\* (and the gradients) as they are, batch after batch; inside train only a
\* training batch changes them.
C10_ValidationReadOnly ==
    [][/\ pc \in {"val_begin", "validating"} =>
            /\ model' = model
            /\ _optimizer' = _optimizer
            /\ grad' = grad
       /\ (pc # "init" /\ (model' # model \/ _optimizer' # _optimizer)) =>
            pc = "training" /\ batch_i < n_train]_vars

\* the second validation batch of the second epoch has been processed
C10_Witness ==
    /\ pc = "validating"
    /\ epoch = 1
    /\ batch_i = 2
    /\ model.weights >= 2

(* ------------------------ claims: save and load ------------------------ *)
AfterLoad == pc \in {"ready", "raised"}

\* C8: load succeeds on a checkpoint with the weights and any subset of the
\* optional fields: a field that is present is restored, one that is absent is
\* skipped without raising and leaves the object's state as it was.
C8_LoadSkipsAbsent ==
    AfterLoad =>
        \A l \in loaded :
            "model_state_dict" \in DOMAIN l.ck =>
                /\ pc # "raised"
                /\ model = l.ck.model_state_dict
                /\ _optimizer = IF "optimizer_state_dic" \in DOMAIN l.ck
                                THEN l.ck.optimizer_state_dic ELSE l.before._optimizer
                /\ _epoch = IF "epoch" \in DOMAIN l.ck THEN l.ck.epoch ELSE l.before._epoch
                /\ _eval_loss = IF "loss" \in DOMAIN l.ck THEN l.ck.loss
                                ELSE l.before._eval_loss

\* the state of an object nothing has touched since its construction
IsFresh(o) ==
    /\ o.model.seed \in Seeds
    /\ o.model.weights = 0
    /\ o.model.stats = 0
    /\ o._optimizer = 0
    /\ o._epoch = 0
    /\ o._eval_loss = Inf

\* C9: after save(path, training=True) and load(path) on a freshly constructed
\* OCR, the fresh object's weights, optimizer state, epoch counter and best-seen
\* loss are those the saved object had when it was saved.
C9_SaveLoadRoundTrip ==
    AfterLoad =>
        \A l \in loaded :
            \A sn \in l.saved :
                (sn.training /\ IsFresh(l.before)) => (pc # "raised" /\ Self = sn.obj)

\* a trained object was saved, and loaded into a fresh object of another seed
C9_Witness ==
    /\ AfterLoad
    /\ \E l \in loaded :
        \E sn \in l.saved :
            /\ sn.training
            /\ IsFresh(l.before)
            /\ l.before.model.seed # sn.obj.model.seed
            /\ sn.obj.model.weights >= 1
            /\ sn.obj._optimizer >= 1
            /\ sn.obj._epoch >= 1
            /\ sn.obj._eval_loss[1] = "fin"

(* ------------------------------ claim C11 ------------------------------ *)
RECURSIVE ExactSum(_)
\* the exact sum of finite values, as <<numerator, denominator>>
ExactSum(ls) ==
    IF ls = <<>> THEN <<0, 1>>
    ELSE LET r == ExactSum(Tail(ls))
         IN <<Head(ls)[2] * r[2] + r[1] * Head(ls)[3], Head(ls)[3] * r[2]>>

\* x is the sum of the n values of ls divided by n
IsMeanOf(x, ls, n) ==
    /\ Len(ls) = n
    /\ n > 0
    /\ IF \E i \in 1..n : ls[i][1] = "nan" THEN x[1] = "nan"
       ELSE IF \E i \in 1..n : ls[i][1] = "inf" THEN x[1] = "inf"
       ELSE /\ x[1] = "fin"
            /\ x[2] * ExactSum(ls)[2] * n = ExactSum(ls)[1] * x[3]

\* C11: the loss a training epoch or a validation epoch returns is the sum of
\* the scalar losses of its batches divided by the number of batches of the
\* loader, whatever the loader
C11_EpochLossIsMean ==
    [][/\ pc = "training" /\ pc' \notin {"training", "raised"}
          => IsMeanOf(train_loss', batch_losses, n_train)
       /\ pc = "validating" /\ pc' \notin {"validating", "raised"}
          => IsMeanOf(eval_loss', batch_losses, n_test)]_vars

\* both epochs returned a mean that is not one of the batch losses
C11_Witness ==
    /\ tracing
    /\ pc = "epoch_end"
    /\ n_train > 1
    /\ train_loss[1] = "fin" /\ train_loss[3] > 1
    /\ Len(batch_losses) = n_test
    /\ eval_loss[1] = "fin" /\ eval_loss[3] > 1

(* ------------------------------ claim C12 ------------------------------ *)
\* C12: train(num_epochs = n) returns two lists of length n; position i of the
\* first is the training loss of epoch i, position i of the second is the
\* validation loss of epoch i
C12_ReturnedLists ==
    [][/\ pc = "epoch_end"
          => /\ training_loss' = Append(training_loss, train_loss)
             /\ evaluations_loss' = Append(evaluations_loss, eval_loss)
       /\ pc' = "returned"
          => /\ Len(training_loss') = num_epochs
             /\ Len(evaluations_loss') = num_epochs]_vars

(* ------------------------------ claim C13 ------------------------------ *)
\* the positions of a raw sequence whose symbol is neither the blank nor a
\* repeat of the symbol just before it
KeptPositions(raw, blank) ==
    {i \in 1..Len(raw) : raw[i] # blank /\ (i = 1 \/ raw[i] # raw[i - 1])}

\* out lists raw at exactly the positions of K, in order
ListsPositions(out, raw, K) ==
    /\ Len(out) = Cardinality(K)
    /\ \A i \in K : out[Cardinality({j \in K : j <= i})] = raw[i]

\* C13: greedy decoding keeps a symbol exactly when it differs from the raw
\* symbol just before it and is not the blank, in order; [0,3,3,0,5,5,5,0] with
\* blank 0 gives [3,5], an all-blank sequence gives the empty sequence, a run of
\* one repeated non-blank symbol gives that symbol once; a batch gives one
\* output per sample
C13_GreedyDecode ==
    dec_pc = "decoded" =>
        /\ Len(batch_predictions) = Len(output[1])
        /\ \A n \in 1..Len(output[1]) :
            LET raw == Sample(output, n)
                out == batch_predictions[n]
            IN /\ ListsPositions(out, raw, KeptPositions(raw, dec_blank))
               /\ (raw = <<0, 3, 3, 0, 5, 5, 5, 0>> /\ dec_blank = 0) => out = <<3, 5>>
               /\ (\A t \in 1..Len(raw) : raw[t] = dec_blank) => out = <<>>
               /\ (\A t \in 1..Len(raw) : raw[t] = raw[1] /\ raw[t] # dec_blank)
                      => out = <<raw[1]>>

\* a batch of two samples decoded: one holds a repeated symbol, kept once, the
\* other a blank followed by a symbol
C13_Witness ==
    /\ dec_pc = "decoded"
    /\ Len(output) = 2
    /\ Len(output[1]) = 2
    /\ \E n, k \in 1..2 :
        /\ Sample(output, n)[1] = Sample(output, n)[2]
        /\ Sample(output, n)[1] # dec_blank
        /\ batch_predictions[n] = <<Sample(output, n)[1]>>
        /\ Sample(output, k)[1] = dec_blank
        /\ Sample(output, k)[2] # dec_blank
        /\ batch_predictions[k] = <<Sample(output, k)[2]>>

(* ------------------------------ claim C14 ------------------------------ *)
\* position i is the first finite validation loss of this call of train
FirstFinite(i) ==
    /\ evaluations_loss[i][1] = "fin"
    /\ \A j \in 1..(i - 1) : evaluations_loss[j][1] # "fin"

\* C14: on a freshly constructed object (best-seen loss +infinity) with
\* checkpointing enabled, the first epoch whose validation loss is finite
\* writes a checkpoint; a run of one epoch with a finite validation loss ends
\* with exactly one checkpoint written
C14_FirstFiniteLossSaves ==
    (args_load = NoPath /\ save_checkpoint) =>
        /\ \A i \in 1..Len(evaluations_loss) :
            FirstFinite(i) =>
                /\ <<"save", i - 1>> \in Range(log)
                /\ \E path \in DOMAIN files :
                    /\ path[1] = i
                    /\ files[path].loss = evaluations_loss[i]
        /\ (pc = "returned" /\ num_epochs = 1 /\ FirstFinite(1)) =>
                /\ saves = 1
                /\ Cardinality(DOMAIN files) = 1

\* a run of two epochs returned: the first validation loss was not finite and
\* wrote nothing, the second was finite and wrote the only checkpoint
C14_Witness ==
    /\ args_load = NoPath
    /\ save_checkpoint
    /\ pc = "returned"
    /\ Len(evaluations_loss) = 2
    /\ FirstFinite(2)
    /\ <<"save", 0>> \notin Range(log)
    /\ Cardinality(DOMAIN files) = 1

(* ------------------------------ claim C15 ------------------------------ *)
\* the epoch counter when train was called: 0 on a fresh object, the value
\* restored by load otherwise
EntryEpoch ==
    IF loaded = {} THEN 0
    ELSE LET l == CHOOSE x \in loaded : TRUE
         IN IF "epoch" \in DOMAIN l.ck THEN l.ck.epoch ELSE l.before._epoch

\* this step is a failing step of an epoch
Raises == log' # log /\ log'[Len(log')][1] = "raise"

\* a step of an epoch has failed
Raised == \E i \in 1..Len(log) : log[i][1] = "raise"

\* C15: when a step of a training or validation epoch fails the failure leaves
\* train: the step is not retried, no later batch or epoch is processed, no
\* checkpoint is written and neither the best-seen loss nor the epoch counter
\* is updated for the epoch of the failure
C15_FailurePropagates ==
    [][/\ Raises =>
            /\ pc' = "raised"
            /\ UNCHANGED <<_epoch, _eval_loss, files, saves, consumed, training_loss,
                           evaluations_loss>>
            /\ _epoch' = EntryEpoch + epoch
            /\ Len(evaluations_loss') = epoch
            /\ \A ev \in Range(log') : ev[2] = epoch => ev[1] \notin {"decision", "save"}
            /\ \A path \in DOMAIN files' : path[1] <= EntryEpoch + epoch
       /\ Raised => UNCHANGED vars]_vars

\* the validation of the second epoch failed on its second batch, after the
\* first epoch had written a checkpoint
C15_Witness ==
    /\ pc = "raised"
    /\ log[Len(log)] = <<"raise", 1>>
    /\ <<"save", 0>> \in Range(log)
    /\ mode = "eval"
    /\ batch_i = 1
    /\ batch_i < n_test
    /\ _epoch = EntryEpoch + 1

(* ------------------------------ claim C16 ------------------------------ *)
\* a step on a batch has failed: the epoch was left with batches still to take
StepFailed ==
    /\ Raised
    /\ batch_i < (IF mode = "train" THEN n_train ELSE n_test)

\* load has failed, train was never called
LoadFailed == pc = "raised" /\ log = <<>>

\* the batches of n epochs, every batch of both loaders once
AllBatches(n) ==
    {<<"train", e, b>> : e \in 0..(n - 1), b \in 0..(n_train - 1)}
    \cup {<<"val", e, b>> : e \in 0..(n - 1), b \in 0..(n_test - 1)}

Count(kind) == Cardinality({i \in 1..Len(log) : log[i][1] = kind})

\* C16: for every num_epochs n >= 0 and finite loaders, when no step fails
\* train eventually returns, after exactly n training epochs and n validation
\* epochs, each having taken every batch of its loader exactly once, and the
\* epoch counter at return is its value at entry plus n
C16_TrainReturns ==
    /\ <>(pc = "returned" \/ StepFailed \/ LoadFailed)
    /\ [](pc = "returned" =>
            /\ Count("train_end") = num_epochs
            /\ Count("val_end") = num_epochs
            /\ Len(consumed) = num_epochs * (n_train + n_test)
            /\ Range(consumed) = AllBatches(num_epochs)
            /\ _epoch = EntryEpoch + num_epochs)

(* ------------------------------ claim C17 ------------------------------ *)
\* the best-seen loss when train was called: +infinity on a fresh object, the
\* value restored by load otherwise
EntryLoss ==
    IF loaded = {} THEN Inf
    ELSE LET l == CHOOSE x \in loaded : TRUE
         IN IF "epoch" \in DOMAIN l.ck THEN l.ck.loss ELSE l.before._eval_loss

\* the value at entry, then the validation losses seen so far
Observed == <<EntryLoss>> \o evaluations_loss

LessOrEqual(a, b) == (a[1] # "nan" /\ a = b) \/ StrictlyLess(a, b)

\* m is a value of vs that no value of vs is below
IsMinimumOf(m, vs) ==
    /\ \E i \in 1..Len(vs) : vs[i] = m
    /\ \A i \in 1..Len(vs) : LessOrEqual(m, vs[i])

NotNaN(vs) == SelectSeq(vs, LAMBDA v : v[1] # "nan")

\* the checkpoints written by this call of train, in the order of writing
SavedEpochs == SelectSeq(log, LAMBDA ev : ev[1] = "save")

Written ==
    [k \in 1..Len(SavedEpochs) |->
        files[CHOOSE path \in DOMAIN files : path[1] = EntryEpoch + SavedEpochs[k][2] + 1]]

\* the losses of the written checkpoints go strictly down, their epoch tags
\* strictly up
CheckpointsOrdered ==
    \A i, j \in 1..Len(SavedEpochs) :
        i < j => /\ StrictlyLess(Written[j].loss, Written[i].loss)
                 /\ Written[i].epoch < Written[j].epoch

InTrain == pc \notin {"init", "ready"} /\ ~LoadFailed

\* C17 as stated: with checkpointing enabled the best-seen loss never
\* increases and after each epoch is the minimum of its value at entry and all
\* validation losses observed so far; the written checkpoints have strictly
\* decreasing losses and strictly increasing epoch tags
C17_BestIsMinimum ==
    [][(save_checkpoint /\ InTrain /\ InTrain') =>
          /\ ~StrictlyLess(_eval_loss, _eval_loss')
          /\ IsMinimumOf(_eval_loss', Observed')
          /\ CheckpointsOrdered']_vars

\* C17 amended: with checkpointing enabled the best-seen loss never increases
\* and after each epoch is the minimum of its value at entry and the
\* validation losses observed so far that are not nan (a nan loss compares
\* false and is passed over); the written checkpoints have strictly decreasing
\* losses and strictly increasing epoch tags
C17_BestIsMinimumNotNaN ==
    [][(save_checkpoint /\ InTrain /\ InTrain') =>
          /\ ~StrictlyLess(_eval_loss, _eval_loss')
          /\ IsMinimumOf(_eval_loss', NotNaN(Observed'))
          /\ CheckpointsOrdered']_vars

\* a resumed run of two epochs, both improving on the loaded loss: two
\* checkpoints written after the loaded one
C17_Witness ==
    /\ save_checkpoint
    /\ pc = "returned"
    /\ loaded # {}
    /\ Len(SavedEpochs) = 2
    /\ StrictlyLess(Written[1].loss, EntryLoss)
    /\ _eval_loss = Written[2].loss
    /\ Cardinality(DOMAIN files) = 3

(* ------------------------------ claim C18 ------------------------------ *)
\* C18: for every label of the annotation the encoded sequence has the length
\* of the label, its k-th element is the index of the k-th character of the
\* label, and every element lies in 1..vocabulary_size-1, so that no encoded
\* label holds the blank index
C18_EncodedLabels ==
    Extracted =>
        /\ Len(targets_enc) = Len(labels)
        /\ \A l \in DOMAIN labels :
            /\ Len(targets_enc[l]) = Len(labels[l])
            /\ \A k \in DOMAIN labels[l] :
                /\ targets_enc[l][k] = token2ind[<<labels[l][k]>>]
                /\ targets_enc[l][k] \in 1..(num_classes - 1)
                /\ targets_enc[l][k] # blank_ind
=============================================================================
